---- MODULE Spec2Model ----
(***************************************************************************)
(* Scraping and ingestion engine of the Sydney events scraper.             *)
(*                                                                         *)
(* The events table (app/models.py), the write path of BaseScraper         *)
(* (save_event, mark_expired_events, run; app/scrapers/base.py), the       *)
(* browser crawl of the Eventbrite and TimeOut scrapers and the cycle of   *)
(* run_all_scrapers (app/scheduler.py).                                    *)
(*                                                                         *)
(* Spec      : the store under one writer at a time: save_event and        *)
(*             mark_expired_events of any source, each as one statement.   *)
(* SpecRace  : the store under overlapping writers.  Every writer owns a   *)
(*             database session; save_event is its SELECT (line 96)        *)
(*             followed by its commit (lines 98-115), and other writers    *)
(*             may commit in between.                                      *)
(* SpecCycle : cycles of run_all_scrapers, one source after the other,     *)
(*             each run with its robots policy, sweep, browser crawl,      *)
(*             teardown and persist loop.                                  *)
(* SpecCycleFair: one cycle from its start to db.close(), every call of   *)
(*             which returns or raises (weak fairness of the next step).   *)
(* SpecSched : start_scheduler and stop_scheduler (app/scheduler.py), the  *)
(*             interval trigger and the cycles it fires on the pool, next  *)
(*             to the cycle start_scheduler runs itself.                   *)
(* SpecManual: run_scrapers.main, the manual run with its total.           *)
(* SpecApi   : the store under save_event, mark_expired_events and the    *)
(*             requests of app/api/events.py, one statement at a time.    *)
(* SpecSelect: the card selection of _scrape_page as a function of what   *)
(*             each selector matches on the page.                         *)
(*                                                                         *)
(* Time is a counter of clock ticks read by datetime.utcnow(); every       *)
(* commit takes one tick, so two commits never read the same instant.      *)
(***************************************************************************)
EXTENDS Integers, Sequences, FiniteSets, TLC

VARIABLES
    events,      \* the rows of table "events"
    now,         \* the clock read by datetime.utcnow()
    last,        \* history: the last statement committed against the table
    pc,          \* SpecRace: where each writer stands inside save_event
    event_data,  \* SpecRace: the candidate each writer is saving
    existing,    \* SpecRace: the row check_duplicate loaded into the session
    cyc,             \* run_all_scrapers: "idle", "construct", "loop", "closed"
    scrapers,        \* the list of scrapers built so far, by source_name
    robot_parser,    \* self.robot_parser of each scraper of the cycle
    idx,             \* position of the for loop over scrapers
    result,          \* what run() of each scraper gave its caller
    rpc,             \* where the running run() stands
    raised,          \* an exception is on its way to run()'s handler
    self_playwright, \* self.playwright of the running scraper is set
    self_browser,    \* self.browser of the running scraper is set
    page_num,        \* page_num of the loop of _scrape_async
    all_events,      \* the candidates scrape() gathers (all_events, events)
    todo,            \* the candidates run() has still to save
    saved_count,     \* saved_count of run()
    driver_running,  \* the driver process the running scraper started is alive
    browser_open,    \* the browser process the running scraper started is alive
    robots_failed,   \* history: _check_robots_txt took its except branch
    run_log,         \* history: the run() calls of the cycle, in order
    run_trace,       \* history: sweep, fetch and upsert of the running run()
    written,         \* history: ids of the rows the running run() wrote
    swept_written,   \* history: rows swept by a run() after it wrote them
    close_calls,     \* history: calls of _close_browser in this run's crawl
    crawl,           \* history: this run's crawl, "none", "running", "returned"
    failures,        \* history: the whole-run failures of this run()
    page_log,        \* history: the turns of the page loop of this crawl
    release_calls,   \* history: browser.close() / playwright.stop() were called
    launch_failed,   \* history: scrapers of the cycle whose _init_browser raised
    scheduler,       \* SpecSched: the BackgroundScheduler: running, its jobs
    timer,           \* SpecSched: ticks until the interval trigger is due
    spc,             \* SpecSched: where the caller of start/stop_scheduler stands
    thread,          \* SpecSched: the run_all_scrapers call of each thread
    call_log,        \* history: the last start/stop_scheduler call that returned
    mpc,             \* SpecManual: where run_scrapers.main stands
    total_events,    \* SpecManual: total_events of main
    counts,          \* history: what each scraper.run() of main returned or raised
    report,          \* history: the total main has logged
    db_session,      \* the Session of the cycle: "none", "active", "inactive", "closed"
    save_log,        \* history: outcome and wait of each turn of the save loop
    response,        \* SpecApi: the last answer of get_events
    ever_expired,    \* history: ids of the rows a sweep has marked expired
    sel_source,      \* SpecSelect: the scraper whose _scrape_page selects cards
    soup,            \* SpecSelect: how many elements of the page each selector matches
    event_cards      \* SpecSelect: the selection: selector used, cards found, cards processed

storeVars == <<events, now, last>>
writerVars == <<pc, event_data, existing>>
cycleVars == <<cyc, scrapers, robot_parser, idx, result, robots_failed, run_log,
               launch_failed>>
runVars == <<rpc, raised, page_num, all_events, todo, saved_count, page_log, run_trace,
             written, swept_written, failures>>
browserVars == <<self_playwright, self_browser, driver_running, browser_open,
                 close_calls, crawl, release_calls>>
schedVars == <<scheduler, timer, spc, thread, call_log>>
sessionVars == <<db_session, save_log>>

apiVars == <<response, ever_expired>>

selectVars == <<sel_source, soup, event_cards>>

manualVars == <<mpc, total_events, counts, report>>

(**************************** bounds and scales ****************************)
MaxTime == 5
MaxRaceTime == 3
MaxCycleTime == 4
MaxSaved == 2
Day == 2

(* The overlapping writers of SpecRace. *)
Procs == {1, 2}

None == <<>>
Some(x) == <<x>>

Sources == {"eventbrite", "meetup", "timeout"}

(* The sources whose runs overlap in SpecRace. *)
RaceSources == {"eventbrite", "timeout"}

TicketUrls == {"https://x/e1", "https://x/e2"}

(* What an extractor hands over for one card: every key but ticket_url and  *)
(* source.  date_time is a parsed date, utcnow() or utcnow() + 7 days: a    *)
(* day long past, a day that passes while the model runs, a week ahead.     *)
PastCard ==
    [title |-> "A", date_time |-> 0 - 3, location |-> "Sydney, Australia",
     description |-> None, image_url |-> None]

EdgeCard == [PastCard EXCEPT !.date_time = 1]

FutureCard ==
    [title |-> "A-updated", date_time |-> 7 * Day, location |-> "Town Hall",
     description |-> Some("d"), image_url |-> Some("https://x/i.png")]

CardFields == {PastCard, EdgeCard, FutureCard}

(* The cards the overlapping runs of SpecRace extract. *)
RaceCards == {PastCard, FutureCard}

(* event_data as save_event receives it from run(): the extractor's keys    *)
(* plus "source", stamped at base.py line 167.                              *)
EventData(url, f, src) ==
    [title |-> f.title, date_time |-> f.date_time, location |-> f.location,
     description |-> f.description, ticket_url |-> url,
     image_url |-> f.image_url, source |-> src]

NoData == EventData("", PastCard, "")

(******************************* the table *********************************)

(* Column ticket_url is unique=True: the INSERT of a second row with the    *)
(* same ticket_url is refused with an IntegrityError.                       *)
UniqueViolation_Unchecked(store, url) == FALSE

UniqueViolation(store, url) == \E r \in store : r.ticket_url = url

RowsOf(store, url) == {r \in store : r.ticket_url = url}

(* Integer primary key: the next rowid (rows are never deleted).            *)
NextId(store) == Cardinality(store) + 1

(* check_duplicate: the first row with this ticket_url, or None.            *)
check_duplicate(store, url) ==
    IF \E r \in store : r.ticket_url = url
    THEN Some(CHOOSE r \in store : r.ticket_url = url)
    ELSE None

(* The Event built from event_data, at INSERT: the defaults fill created_at, *)
(* updated_at (utcnow) and click_count (0); expires_at stays NULL.          *)
NewEvent(id, data, t) ==
    [id |-> id, title |-> data.title, date_time |-> data.date_time,
     location |-> data.location, description |-> data.description,
     ticket_url |-> data.ticket_url, image_url |-> data.image_url,
     source |-> data.source, created_at |-> t, updated_at |-> t,
     expires_at |-> None, click_count |-> 0]

(* Lines 100-104 on the row r as it stands in the table, snap being the     *)
(* row as line 96 loaded it: every key of event_data but ticket_url is      *)
(* assigned, updated_at is set to utcnow(), and the commit writes the       *)
(* columns whose assigned value differs from the loaded one.                *)
UpdateExisting_KeepTitle(r, snap, data, t) ==
    [k \in DOMAIN r |->
        IF k = "updated_at" THEN t
        ELSE IF k \in DOMAIN data /\ k \notin {"ticket_url", "title"}
                /\ data[k] # snap[k]
             THEN data[k]
             ELSE r[k]]

UpdateExisting_Reinsert(r, snap, data, t) ==
    [k \in DOMAIN r |->
        IF k \in {"updated_at", "created_at"} THEN t
        ELSE IF k \in DOMAIN data /\ k # "ticket_url" /\ data[k] # snap[k]
             THEN data[k]
             ELSE r[k]]

UpdateExisting_Reactivate(r, snap, data, t) ==
    [k \in DOMAIN r |->
        IF k = "updated_at" THEN t
        ELSE IF k = "expires_at" THEN None
        ELSE IF k \in DOMAIN data /\ k # "ticket_url" /\ data[k] # snap[k]
             THEN data[k]
             ELSE r[k]]

UpdateExisting_Replace(r, snap, data, t) ==
    [NewEvent(r.id, data, t) EXCEPT !.ticket_url = r.ticket_url,
                                    !.created_at = r.created_at]

UpdateExisting(r, snap, data, t) ==
    [k \in DOMAIN r |->
        IF k = "updated_at" THEN t
        ELSE IF k \in DOMAIN data /\ k # "ticket_url" /\ data[k] # snap[k]
             THEN data[k]
             ELSE r[k]]

(* The filter of mark_expired_events, cutoff_date = now - timedelta(days=1) *)
SweepMatches_Inclusive(r, src, t) ==
    /\ r.source = src
    /\ r.date_time <= t - Day
    /\ r.expires_at = None

SweepMatches(r, src, t) ==
    /\ r.source = src
    /\ r.date_time < t - Day
    /\ r.expires_at = None

(* The bulk UPDATE of mark_expired_events at time t; updated_at carries     *)
(* onupdate=utcnow, which every UPDATE of a row applies.                    *)
mark_expired_events(store, src, t) ==
    { IF SweepMatches(r, src, t)
      THEN [r EXCEPT !.expires_at = Some(t), !.updated_at = t]
      ELSE r : r \in store }

(* The commit of save_event for a session that loaded `snap` at line 96.    *)
(* Result: <<the table afterwards, "updated" | "created" | "raised">>.      *)
save_event(store, snap, data, t) ==
    IF snap # None
    THEN << { IF r.id = snap[1].id
              THEN UpdateExisting(r, snap[1], data, t)
              ELSE r : r \in store }, "updated" >>
    ELSE IF UniqueViolation(store, data.ticket_url)
         THEN << store, "raised" >>
         ELSE << store \cup {NewEvent(NextId(store), data, t)}, "created" >>

Statement(op, data, snap, src, t, before) ==
    [op |-> op, data |-> data, snapshot |-> snap, source |-> src,
     time |-> t, before |-> before,
     repeat |-> /\ op = "updated"
                /\ last.op \in {"created", "updated"}
                /\ last.data = data]

(******************************* Spec **************************************)
(* The store under one writer at a time: whole calls of save_event and of  *)
(* mark_expired_events, by any source, in any order.                       *)

StoreInit ==
    /\ events = {}
    /\ now = 0
    /\ last = [op |-> "none", data |-> NoData, snapshot |-> None,
               source |-> "", time |-> 0, before |-> {}, repeat |-> FALSE]

WriterInit ==
    /\ pc = [p \in Procs |-> "idle"]
    /\ event_data = [p \in Procs |-> NoData]
    /\ existing = [p \in Procs |-> None]

CycleInit ==
    /\ cyc = "idle"
    /\ db_session = "none"
    /\ save_log = <<>>
    /\ scrapers = <<>>
    /\ robot_parser = [s \in Sources |-> None]
    /\ idx = 1
    /\ result = [s \in Sources |-> None]
    /\ rpc = "idle"
    /\ raised = FALSE
    /\ self_playwright = FALSE
    /\ self_browser = FALSE
    /\ page_num = 1
    /\ all_events = <<>>
    /\ todo = <<>>
    /\ saved_count = 0
    /\ driver_running = FALSE
    /\ browser_open = FALSE
    /\ robots_failed = [s \in Sources |-> FALSE]
    /\ run_log = <<>>
    /\ run_trace = <<>>
    /\ page_log = <<>>
    /\ written = {}
    /\ swept_written = {}
    /\ close_calls = 0
    /\ crawl = "none"
    /\ failures = {}
    /\ release_calls = {}
    /\ launch_failed = {}

(* The module-level BackgroundScheduler() of scheduler.py, line 13: not    *)
(* running, no job; no start_scheduler or stop_scheduler call yet.         *)
IdleThread == [active |-> FALSE, done |-> 0, phase |-> "between"]

NoCall ==
    [op |-> "none", on_stopped |-> FALSE, returned |-> FALSE, cycles |-> 0,
     runs |-> 0, inflight |-> FALSE]

SchedInit ==
    /\ scheduler = [running |-> FALSE, jobs |-> {}]
    /\ timer = 0
    /\ spc = "idle"
    /\ thread = [t \in {"caller", "worker"} |-> IdleThread]
    /\ call_log = NoCall

(* run_scrapers.main has not been called.                                  *)
ManualInit ==
    /\ mpc = "idle"
    /\ total_events = 0
    /\ counts = <<>>
    /\ report = None

NoResponse == [include_expired |-> TRUE, time |-> 0, ids |-> {}]

ApiInit ==
    /\ response = NoResponse
    /\ ever_expired = {}

(* The selectors of the two _scrape_page: a div whose class holds the      *)
(* source's word, an article element, a div whose data-testid holds       *)
(* "event", and the CSS selector on the class attribute.                   *)
Selectors == {"class", "semantic", "attribute", "css"}

SelectInit ==
    /\ sel_source = "eventbrite"
    /\ soup = [s \in Selectors |-> 0]
    /\ event_cards = None

Init ==
    /\ StoreInit /\ WriterInit /\ CycleInit /\ SchedInit /\ ManualInit
    /\ ApiInit /\ SelectInit

(* save_event(event_data), lines 96-115, with no other writer in between.   *)
SaveEvent(src) ==
    /\ now < MaxTime
    /\ \E url \in TicketUrls, f \in CardFields :
          LET data == EventData(url, f, src)
              snap == check_duplicate(events, url)
              res == save_event(events, snap, data, now) IN
          /\ events' = res[1]
          /\ last' = Statement(res[2], data, snap, src, now, events)
    /\ now' = now + 1
    /\ UNCHANGED <<writerVars, cycleVars, runVars, browserVars>>
    /\ UNCHANGED schedVars
    /\ UNCHANGED manualVars
    /\ UNCHANGED sessionVars
    /\ UNCHANGED apiVars
    /\ UNCHANGED selectVars

(* mark_expired_events of the scraper of source src.                        *)
MarkExpiredEvents(src) ==
    /\ now < MaxTime
    /\ events' = mark_expired_events(events, src, now)
    /\ last' = Statement("sweep", NoData, None, src, now, events)
    /\ now' = now + 1
    /\ UNCHANGED <<writerVars, cycleVars, runVars, browserVars>>
    /\ UNCHANGED schedVars
    /\ UNCHANGED manualVars
    /\ UNCHANGED sessionVars
    /\ UNCHANGED apiVars
    /\ UNCHANGED selectVars

(* Time passing with no statement: time.sleep, the hour between cycles.     *)
Tick ==
    /\ now < MaxTime
    /\ now' = now + 1
    /\ UNCHANGED <<events, last>>
    /\ UNCHANGED <<writerVars, cycleVars, runVars, browserVars>>
    /\ UNCHANGED schedVars
    /\ UNCHANGED manualVars
    /\ UNCHANGED sessionVars
    /\ UNCHANGED apiVars
    /\ UNCHANGED selectVars

vars == <<storeVars, writerVars, cycleVars, runVars, browserVars, schedVars,
          manualVars, sessionVars, apiVars, selectVars>>

Next ==
    \/ \E src \in Sources : SaveEvent(src)
    \/ \E src \in Sources : MarkExpiredEvents(src)
    \/ Tick

Spec == Init /\ [][Next]_vars

(***************************** SpecRace ************************************)
(* Overlapping runs (the scheduled cycle and a manual run_scrapers.main,   *)
(* each with its own session): save_event is the SELECT of line 96, then   *)
(* the commit of lines 98-115, and another writer may commit in between.   *)

(* save_event, line 96: the SELECT by ticket_url.                           *)
SaveEventQuery(p) ==
    /\ pc[p] = "idle"
    /\ \E src \in RaceSources, url \in TicketUrls, f \in RaceCards :
          /\ event_data' = [event_data EXCEPT ![p] = EventData(url, f, src)]
          /\ existing' = [existing EXCEPT ![p] = check_duplicate(events, url)]
    /\ pc' = [pc EXCEPT ![p] = "commit"]
    /\ UNCHANGED <<storeVars, cycleVars, runVars, browserVars>>
    /\ UNCHANGED schedVars
    /\ UNCHANGED manualVars
    /\ UNCHANGED sessionVars
    /\ UNCHANGED apiVars
    /\ UNCHANGED selectVars

(* save_event, lines 98-115: assign or add, then commit.                    *)
SaveEventCommit(p) ==
    /\ pc[p] = "commit"
    /\ now < MaxRaceTime
    /\ LET res == save_event(events, existing[p], event_data[p], now) IN
          /\ events' = res[1]
          /\ last' = Statement(res[2], event_data[p], existing[p],
                               event_data[p].source, now, events)
    /\ now' = now + 1
    /\ pc' = [pc EXCEPT ![p] = "idle"]
    /\ event_data' = [event_data EXCEPT ![p] = NoData]
    /\ existing' = [existing EXCEPT ![p] = None]
    /\ UNCHANGED <<cycleVars, runVars, browserVars>>
    /\ UNCHANGED schedVars
    /\ UNCHANGED manualVars
    /\ UNCHANGED sessionVars
    /\ UNCHANGED apiVars
    /\ UNCHANGED selectVars

(* mark_expired_events of an overlapping run.                               *)
RaceMarkExpiredEvents(src) ==
    /\ now < MaxRaceTime
    /\ MarkExpiredEvents(src)

NextRace ==
    \/ \E p \in Procs : SaveEventQuery(p)
    \/ \E p \in Procs : SaveEventCommit(p)
    \/ \E src \in RaceSources : RaceMarkExpiredEvents(src)

SpecRace == Init /\ [][NextRace]_vars

(***************************** SpecCycle ***********************************)
(* run_all_scrapers: one session, the three scrapers built in order, then  *)
(* run() of each, one after the other.                                     *)

ScraperOrder == <<"eventbrite", "meetup", "timeout">>

(* The listing pages of one crawl, by page number: range(1, 4) and         *)
(* range(1, 3).                                                            *)
ListingUrls == 1..3

PageLimit(src) == IF src = "timeout" THEN 2 ELSE 3

(* urllib.robotparser.RobotFileParser() as constructed: nothing read yet.  *)
RobotFileParser ==
    [disallow_all |-> FALSE, allow_all |-> FALSE, last_checked |-> FALSE,
     disallowed |-> {}]

(* The rule sets a robots.txt gives for this user agent, as the listing    *)
(* pages it disallows (one that allows them all answers as allow_all).     *)
RobotsRules == {{2}}

(* What robot_parser.read() can meet: a file that parses, HTTP 401/403,    *)
(* another 4xx, a 5xx (read() returns with nothing set), or an exception   *)
(* (URLError, a body that is not UTF-8).                                   *)
RobotsOutcomes ==
    {[kind |-> "parsed", disallowed |-> d] : d \in RobotsRules}
    \cup {[kind |-> k, disallowed |-> {}] :
             k \in {"http_401_403", "http_4xx", "http_5xx", "raises"}}

(* _check_robots_txt: the parser self.robot_parser ends up with.           *)
check_robots_txt(o) ==
    CASE o.kind = "parsed" ->
            [RobotFileParser EXCEPT !.last_checked = TRUE,
                                    !.disallowed = o.disallowed]
      [] o.kind = "http_401_403" -> [RobotFileParser EXCEPT !.disallow_all = TRUE]
      [] o.kind = "http_4xx" -> [RobotFileParser EXCEPT !.allow_all = TRUE]
      [] o.kind = "http_5xx" -> RobotFileParser
      [] OTHER -> RobotFileParser

(* can_fetch: self.robot_parser.can_fetch(user_agent, url).  The parser     *)
(* answers False until a robots.txt has been read (last_checked).          *)
can_fetch(parser, url) ==
    IF parser = None THEN TRUE
    ELSE IF parser[1].disallow_all THEN FALSE
    ELSE IF parser[1].allow_all THEN TRUE
    ELSE IF ~parser[1].last_checked THEN FALSE
    ELSE url \notin parser[1].disallowed

(* A card of a listing page: the href of its first anchor that carries    *)
(* one (None when it has no such anchor) and what the other selectors      *)
(* find.                                                                   *)
Card(href, f) == [href |-> href, fields |-> f]

(* Lines 96-104: the ticket URL made of an href, "/..." prefixed with      *)
(* base_url and "http..." taken as it is, over the hrefs of the cards      *)
(* below.                                                                  *)
Hrefs == {"/e1", "https://x/e2"}

ResolveHref(href) ==
    CASE href = "/e1" -> "https://x/e1"
      [] href = "https://x/e2" -> "https://x/e2"

(* _extract_event_data: None for a card without a link, else the           *)
(* candidate.                                                              *)
Candidate(url, f) == [ticket_url |-> url, fields |-> f]

extract_event_data(card) ==
    IF card.href = None
    THEN None
    ELSE Some(Candidate(ResolveHref(card.href[1]), card.fields))

(* The card loop of _scrape_page, lines 70-77: a card goes into events     *)
(* when its extraction is not None and carries a ticket_url.               *)
ExtractPage_KeepAll(cards) ==
    [i \in 1..Len(cards) |->
        Candidate(IF cards[i].href = None THEN ""
                  ELSE ResolveHref(cards[i].href[1]), cards[i].fields)]

ExtractPage(cards) ==
    LET got == [i \in 1..Len(cards) |-> extract_event_data(cards[i])]
        kept == SelectSeq(got, LAMBDA d : d # None /\ d[1].ticket_url # "")
    IN  [i \in 1..Len(kept) |-> kept[i][1]]

(* The cards one listing page can show: none, one with a link, one         *)
(* without a link, or one without a link followed by one with a link.      *)
ListingPages ==
    { <<>>,
      << Card(Some("/e1"), PastCard) >>,
      << Card(None, PastCard) >>,
      << Card(None, PastCard), Card(Some("https://x/e2"), FutureCard) >> }

(* The candidate lists a listing page can yield.                           *)
PageExtracts == {ExtractPage(cards) : cards \in ListingPages}

(* What MeetupScraper.scrape() can return: such a list, or a candidate     *)
(* that comes with a source of the extractor's own.                        *)
MeetupExtracts ==
    PageExtracts \cup
    { << [ticket_url |-> "https://x/e1", fields |-> PastCard,
          source |-> "eventbrite"] >> }

(* run(), line 167: event_data["source"] = self.source_name, whatever the  *)
(* candidate carried.                                                      *)
StampSource_KeepExtractor(cand, src) ==
    EventData(cand.ticket_url, cand.fields,
              IF "source" \in DOMAIN cand THEN cand.source ELSE src)

StampSource(cand, src) == EventData(cand.ticket_url, cand.fields, src)

(* _scrape_page(url), lines 50-77: the page is left alone when can_fetch   *)
(* refuses it, else page.goto either raises or loads a page of cards.      *)
ScrapePageOutcomes_NoGate(allowed) ==
    {[nav |-> "ok", cards |-> c] : c \in ListingPages}
    \cup {[nav |-> "raises", cards |-> <<>>]}

ScrapePageOutcomes(allowed) ==
    IF allowed
    THEN {[nav |-> "ok", cards |-> c] : c \in ListingPages}
         \cup {[nav |-> "raises", cards |-> <<>>]}
    ELSE {[nav |-> "skipped", cards |-> <<>>]}

(* Lines 176 and 185-186: the page loop ends after the last page of the    *)
(* range and after a page that gave no events.                             *)
PageLoopBreaks_OnlyAtLimit(src, n, count) == n = PageLimit(src)

PageLoopBreaks_OnlyOnEmpty(src, n, count) == count = 0

PageLoopBreaks(src, n, count) == count = 0 \/ n = PageLimit(src)

(* Lines 185-188: the turn of the page loop sleeps self.delay unless the   *)
(* page gave no events and the loop broke before the sleep.                *)
PageDelay(count) == count # 0

(* all_events as line 183 builds it: what the logged pages gave, in order. *)
RECURSIVE LoggedEvents(_)
LoggedEvents(log) ==
    IF log = <<>> THEN <<>>
    ELSE LoggedEvents(SubSeq(log, 1, Len(log) - 1))
            \o (IF log[Len(log)].nav = "ok" THEN ExtractPage(log[Len(log)].cards)
                ELSE <<>>)

(* _scrape_async, line 195: return all_events, whatever the page loop met. *)
ScrapeResult_EmptyOnFailure(all, log) ==
    IF \E i \in 1..Len(log) : log[i].nav = "raises" THEN <<>> ELSE all

ScrapeResult(all, log) == all

(* The order of run(): sweep, scrape, save, return.                        *)
RunStageAfter_SweepLast(stage) ==
    CASE stage = "start" -> "scrape"
      [] stage = "scrape" -> "persist"
      [] stage = "persist" -> "sweep"
      [] OTHER -> "return"

RunStageAfter(stage) ==
    CASE stage = "start" -> "sweep"
      [] stage = "sweep" -> "scrape"
      [] stage = "scrape" -> "persist"
      [] OTHER -> "return"

(* Where run() of scraper src stands on entering a stage.                  *)
Enter(src, stage) ==
    IF stage = "scrape"
    THEN (IF src = "meetup" THEN "meetup" ELSE "init")
    ELSE stage

(* run()'s handler, lines 178-180: log and return 0.                       *)
run_except_Reraise(count) == <<"raise", 0>>

run_except(count) == <<"int", 0>>

(* The for loop of run_all_scrapers after one scraper's run(): the next    *)
(* scraper, whatever run() returned or raised.                             *)
LoopAfterRun_StopOnFailure(i, ret) ==
    IF ret = <<"int", 0>> \/ ret[1] = "raise" THEN Len(ScraperOrder) + 1 ELSE i + 1

LoopAfterRun(i, ret) == i + 1

Cur == scrapers[idx]

(* The Session after save_event raised.  A failure of the flush inside     *)
(* db.commit() (lines 105 and 112) leaves the Session's transaction        *)
(* inactive until rollback(), which neither save_event nor run() calls; a  *)
(* failure before the flush (building the Event, line 110) leaves it as it *)
(* was.                                                                    *)
FailureKinds == {"flush", "before_flush"}

SessionAfterFailure(session, kind) ==
    IF kind = "flush" THEN "inactive" ELSE session

(* How a save_event that raises is logged: on an inactive Session the      *)
(* query of check_duplicate (line 75) raises before anything else runs.    *)
FailureOutcome(session) ==
    IF session = "inactive" THEN "pending_rollback" ELSE "refused"

(* One turn of the save loop in the log: rate_limit() (line 170) stands in *)
(* the try block after save_event, so a turn that raised has no wait.      *)
SaveTurn_AlwaysWait(outcome) == <<outcome, "wait">>

SaveTurn(outcome) ==
    IF outcome = "saved" THEN <<outcome, "wait">> ELSE <<outcome>>

(* saved_count += 1 (line 169) is reached only when save_event returned.   *)
SavedCountAfter_EveryAttempt(count, outcome) == count + 1

SavedCountAfter(count, outcome) ==
    IF outcome = "saved" THEN count + 1 ELSE count

(* run_all_scrapers, lines 18-20: a new cycle opens its session.           *)
RunAllScrapersStart ==
    /\ cyc \in {"idle", "closed"}
    /\ cyc' = "construct"
    /\ result' = [s \in Sources |-> None]
    /\ run_log' = <<>>
    /\ launch_failed' = {}
    /\ UNCHANGED <<scrapers, robot_parser, robots_failed, idx>>
    /\ UNCHANGED <<storeVars, writerVars, runVars, browserVars>>
    /\ UNCHANGED schedVars
    /\ UNCHANGED manualVars
    /\ db_session' = "active"
    /\ save_log' = <<>>
    /\ UNCHANGED apiVars
    /\ UNCHANGED selectVars

(* BaseScraper.__init__ of the next scraper of the list: _check_robots_txt. *)
Construct ==
    /\ cyc = "construct"
    /\ Len(scrapers) < Len(ScraperOrder)
    /\ LET src == ScraperOrder[Len(scrapers) + 1] IN
       /\ \E o \in RobotsOutcomes :
             /\ robot_parser' = [robot_parser EXCEPT ![src] = Some(check_robots_txt(o))]
             /\ robots_failed' = [robots_failed EXCEPT ![src] = (o.kind = "raises")]
       /\ scrapers' = Append(scrapers, src)
    /\ cyc' = IF Len(scrapers') = Len(ScraperOrder) THEN "loop" ELSE "construct"
    /\ UNCHANGED <<idx, result, run_log, launch_failed>>
    /\ UNCHANGED <<storeVars, writerVars, runVars, browserVars>>
    /\ UNCHANGED schedVars
    /\ UNCHANGED manualVars
    /\ UNCHANGED sessionVars
    /\ UNCHANGED apiVars
    /\ UNCHANGED selectVars

(* scraper.run() is called; the scraper's attributes are as __init__ left  *)
(* them.                                                                   *)
RunStart ==
    /\ cyc = "loop"
    /\ rpc = "idle"
    /\ idx <= Len(scrapers)
    /\ run_log' = Append(run_log, Cur)
    /\ rpc' = Enter(Cur, RunStageAfter("start"))
    /\ raised' = FALSE
    /\ page_num' = 1
    /\ all_events' = <<>>
    /\ todo' = <<>>
    /\ saved_count' = 0
    /\ run_trace' = <<>>
    /\ page_log' = <<>>
    /\ written' = {}
    /\ swept_written' = {}
    /\ failures' = {}
    /\ self_playwright' = FALSE
    /\ self_browser' = FALSE
    /\ driver_running' = FALSE
    /\ browser_open' = FALSE
    /\ close_calls' = 0
    /\ crawl' = "none"
    /\ release_calls' = {}
    /\ UNCHANGED <<cyc, scrapers, robot_parser, idx, result, robots_failed,
                   launch_failed>>
    /\ UNCHANGED <<storeVars, writerVars>>
    /\ UNCHANGED schedVars
    /\ UNCHANGED manualVars
    /\ save_log' = <<>>
    /\ UNCHANGED db_session
    /\ UNCHANGED apiVars
    /\ UNCHANGED selectVars

(* run(), line 157: mark_expired_events().                                 *)
RunSweep ==
    /\ rpc = "sweep"
    /\ db_session = "active"
    /\ now < MaxCycleTime
    /\ events' = mark_expired_events(events, Cur, now)
    /\ last' = Statement("sweep", NoData, None, Cur, now, events)
    /\ now' = now + 1
    /\ run_trace' = Append(run_trace, "sweep")
    /\ swept_written' = swept_written \cup
          {r.id : r \in {x \in events : SweepMatches(x, Cur, now) /\ x.id \in written}}
    /\ rpc' = Enter(Cur, RunStageAfter("sweep"))
    /\ UNCHANGED <<raised, page_num, all_events, todo, saved_count, page_log,
                   written, failures>>
    /\ UNCHANGED <<writerVars, cycleVars, browserVars>>
    /\ UNCHANGED schedVars
    /\ UNCHANGED manualVars
    /\ UNCHANGED sessionVars
    /\ UNCHANGED apiVars
    /\ UNCHANGED selectVars

(* run(), line 157 raising (the database refuses the statement).           *)
RunSweepRaises ==
    /\ rpc = "sweep"
    /\ run_trace' = Append(run_trace, "sweep")
    /\ failures' = failures \cup {"sweep"}
    /\ raised' = TRUE
    /\ rpc' = "return"
    /\ db_session' \in {db_session, "inactive"}
    /\ UNCHANGED save_log
    /\ UNCHANGED <<page_num, all_events, todo, saved_count, page_log, written,
                   swept_written>>
    /\ UNCHANGED <<storeVars, writerVars, cycleVars, browserVars>>
    /\ UNCHANGED schedVars
    /\ UNCHANGED manualVars
    /\ UNCHANGED apiVars
    /\ UNCHANGED selectVars

(* _scrape_async, line 170: _init_browser.  The driver start, the browser  *)
(* launch or the page setup may raise; line 190 catches it and the finally *)
(* clause runs.                                                            *)
InitBrowser ==
    /\ rpc = "init"
    /\ \E o \in {"ok", "start_raises", "launch_raises", "page_raises"} :
          /\ self_playwright' = (o # "start_raises")
          /\ self_browser' = (o \in {"ok", "page_raises"})
          /\ driver_running' = (o # "start_raises")
          /\ browser_open' = (o \in {"ok", "page_raises"})
          /\ failures' = IF o = "ok" THEN failures ELSE failures \cup {"launch"}
          /\ rpc' = IF o = "ok" THEN "page" ELSE "close"
          /\ launch_failed' = IF o = "ok" THEN launch_failed
                               ELSE launch_failed \cup {Cur}
    /\ crawl' = "running"
    /\ close_calls' = 0
    /\ release_calls' = {}
    /\ page_num' = 1
    /\ UNCHANGED <<raised, all_events, todo, saved_count, page_log, run_trace,
                   written, swept_written>>
    /\ UNCHANGED <<cyc, scrapers, robot_parser, idx, result, robots_failed, run_log>>
    /\ UNCHANGED <<storeVars, writerVars>>
    /\ UNCHANGED schedVars
    /\ UNCHANGED manualVars
    /\ UNCHANGED sessionVars
    /\ UNCHANGED apiVars
    /\ UNCHANGED selectVars

(* One turn of the page loop, lines 176-188: _scrape_page(url), extend,    *)
(* break on an empty page, sleep.  _scrape_page returns [] when can_fetch   *)
(* refuses the URL and when the navigation raises.                         *)
ScrapePage ==
    /\ rpc = "page"
    /\ \E o \in ScrapePageOutcomes(can_fetch(robot_parser[Cur], page_num)) :
          LET events_ == ExtractPage(o.cards) IN
          /\ all_events' = all_events \o events_
          /\ page_log' = Append(page_log,
                [page |-> page_num, nav |-> o.nav, cards |-> o.cards,
                 delay |-> PageDelay(Len(events_))])
          /\ run_trace' = IF o.nav = "skipped" THEN run_trace
                          ELSE Append(run_trace, "fetch")
          /\ IF PageLoopBreaks(Cur, page_num, Len(events_))
             THEN rpc' = "close" /\ page_num' = page_num
             ELSE rpc' = "page" /\ page_num' = page_num + 1
    /\ UNCHANGED <<raised, todo, saved_count, written, swept_written, failures>>
    /\ UNCHANGED <<storeVars, writerVars, cycleVars, browserVars>>
    /\ UNCHANGED schedVars
    /\ UNCHANGED manualVars
    /\ UNCHANGED sessionVars
    /\ UNCHANGED apiVars
    /\ UNCHANGED selectVars

(* How _scrape_async ends, lines 192-195: an exception of _close_browser   *)
(* in the finally clause leaves the function in place of the return.       *)
FinallyOutcome_Swallowed(teardown_raises) == "return"

FinallyOutcome(teardown_raises) ==
    IF teardown_raises THEN "raise" ELSE "return"

(* The finally clause, line 193: _close_browser.  browser.close() runs if  *)
(* self.browser is set, then playwright.stop() if self.playwright is set;  *)
(* an exception of the first leaves the second uncalled.  A call that      *)
(* raises may or may not have ended its process.                           *)
CloseBrowser ==
    /\ rpc = "close"
    /\ close_calls' = close_calls + 1
    /\ crawl' = "returned"
    /\ \E bc \in (IF self_browser THEN {"ok", "raises"} ELSE {"skip"}),
          ps \in (IF self_playwright THEN {"ok", "raises"} ELSE {"skip"}),
          ended \in BOOLEAN :
          /\ release_calls' = (IF bc = "skip" THEN {} ELSE {"browser"})
                \cup (IF bc = "raises" \/ ps = "skip" THEN {} ELSE {"driver"})
          /\ browser_open' =
                IF bc = "ok" \/ (bc = "raises" /\ ended)
                THEN FALSE ELSE browser_open
          /\ driver_running' =
                IF bc # "raises" /\ (ps = "ok" \/ (ps = "raises" /\ ended))
                THEN FALSE ELSE driver_running
          /\ failures' = IF bc = "raises" \/ ps = "raises"
                          THEN failures \cup {"teardown"} ELSE failures
          /\ IF FinallyOutcome(bc = "raises" \/ ps = "raises") = "raise"
             THEN /\ raised' = TRUE
                  /\ todo' = todo
                  /\ rpc' = "return"
             ELSE /\ raised' = raised
                  /\ todo' = ScrapeResult(all_events, page_log)
                  /\ rpc' = Enter(Cur, RunStageAfter("scrape"))
    /\ UNCHANGED <<page_num, all_events, saved_count, page_log, run_trace,
                   written, swept_written, self_playwright, self_browser>>
    /\ UNCHANGED <<storeVars, writerVars, cycleVars>>
    /\ UNCHANGED schedVars
    /\ UNCHANGED manualVars
    /\ UNCHANGED sessionVars
    /\ UNCHANGED apiVars
    /\ UNCHANGED selectVars

(* MeetupScraper.scrape(): it returns a list of candidates or raises.      *)
MeetupScrape ==
    /\ rpc = "meetup"
    /\ \/ \E l \in MeetupExtracts :
             /\ todo' = l
             /\ all_events' = l
             /\ run_trace' = Append(run_trace, "fetch")
             /\ rpc' = Enter(Cur, RunStageAfter("scrape"))
             /\ UNCHANGED <<raised, failures>>
       \/ /\ raised' = TRUE
          /\ failures' = failures \cup {"crawl"}
          /\ rpc' = "return"
          /\ UNCHANGED <<todo, all_events, run_trace>>
    /\ UNCHANGED <<page_num, saved_count, page_log, written, swept_written>>
    /\ UNCHANGED <<storeVars, writerVars, cycleVars, browserVars>>
    /\ UNCHANGED schedVars
    /\ UNCHANGED manualVars
    /\ UNCHANGED sessionVars
    /\ UNCHANGED apiVars
    /\ UNCHANGED selectVars

(* One turn of the save loop, lines 164-170: stamp the source, save_event, *)
(* count, rate_limit.                                                      *)
RunSaveEvent ==
    /\ rpc = "persist"
    /\ todo # <<>>
    /\ db_session = "active"
    /\ now < MaxCycleTime
    /\ LET data == StampSource(Head(todo), Cur)
           snap == check_duplicate(events, data.ticket_url)
           res == save_event(events, snap, data, now) IN
       /\ events' = res[1]
       /\ last' = Statement(res[2], data, snap, Cur, now, events)
       /\ written' = written \cup {r.id : r \in RowsOf(res[1], data.ticket_url)}
    /\ now' = now + 1
    /\ saved_count' = SavedCountAfter(saved_count, "saved")
    /\ save_log' = save_log \o SaveTurn("saved")
    /\ todo' = Tail(todo)
    /\ run_trace' = Append(run_trace, "upsert")
    /\ UNCHANGED db_session
    /\ UNCHANGED <<rpc, raised, page_num, all_events, page_log, swept_written,
                   failures>>
    /\ UNCHANGED <<writerVars, cycleVars, browserVars>>
    /\ UNCHANGED schedVars
    /\ UNCHANGED manualVars
    /\ UNCHANGED apiVars
    /\ UNCHANGED selectVars

(* Lines 171-173: save_event raised (the database refuses the statement);  *)
(* the candidate is logged and skipped.                                    *)
RunSaveEventRaises ==
    /\ rpc = "persist"
    /\ todo # <<>>
    /\ LET outcome == FailureOutcome(db_session) IN
       /\ save_log' = save_log \o SaveTurn(outcome)
       /\ saved_count' = SavedCountAfter(saved_count, outcome)
    /\ \E kind \in FailureKinds :
          db_session' = SessionAfterFailure(db_session, kind)
    /\ todo' = Tail(todo)
    /\ run_trace' = Append(run_trace, "upsert")
    /\ UNCHANGED <<rpc, raised, page_num, all_events, page_log,
                   written, swept_written, failures>>
    /\ UNCHANGED <<storeVars, writerVars, cycleVars, browserVars>>
    /\ UNCHANGED schedVars
    /\ UNCHANGED manualVars
    /\ UNCHANGED apiVars
    /\ UNCHANGED selectVars

(* The save loop is through.                                               *)
RunSaved ==
    /\ rpc = "persist"
    /\ todo = <<>>
    /\ rpc' = Enter(Cur, RunStageAfter("persist"))
    /\ UNCHANGED <<raised, page_num, all_events, todo, saved_count, page_log,
                   run_trace, written, swept_written, failures>>
    /\ UNCHANGED <<storeVars, writerVars, cycleVars, browserVars>>
    /\ UNCHANGED schedVars
    /\ UNCHANGED manualVars
    /\ UNCHANGED sessionVars
    /\ UNCHANGED apiVars
    /\ UNCHANGED selectVars

(* run() returns saved_count (line 176) or, from its handler, 0 (line 180); *)
(* the loop of run_all_scrapers goes on (lines 27-34).                     *)
RunReturn ==
    /\ rpc = "return"
    /\ LET ret == IF raised THEN run_except(saved_count)
                  ELSE <<"int", saved_count>> IN
       /\ result' = [result EXCEPT ![Cur] = Some(ret)]
       /\ idx' = LoopAfterRun(idx, ret)
    /\ rpc' = "idle"
    /\ page_num' = 1
    /\ all_events' = <<>>
    /\ todo' = <<>>
    /\ saved_count' = 0
    /\ page_log' = <<>>
    /\ UNCHANGED <<cyc, scrapers, robot_parser, robots_failed, run_log,
                   launch_failed>>
    /\ UNCHANGED <<raised, run_trace, written, swept_written, failures>>
    /\ UNCHANGED <<storeVars, writerVars, browserVars>>
    /\ UNCHANGED schedVars
    /\ UNCHANGED manualVars
    /\ UNCHANGED sessionVars
    /\ UNCHANGED apiVars
    /\ UNCHANGED selectVars

(* run_all_scrapers, lines 36-37: the loop is through, db.close(); the     *)
(* scrapers of the cycle are dropped with their attributes.                *)
RunAllScrapersEnd ==
    /\ cyc = "loop"
    /\ rpc = "idle"
    /\ idx > Len(scrapers)
    /\ cyc' = "closed"
    /\ scrapers' = <<>>
    /\ robot_parser' = [s \in Sources |-> None]
    /\ robots_failed' = [s \in Sources |-> FALSE]
    /\ idx' = 1
    /\ raised' = FALSE
    /\ run_trace' = <<>>
    /\ written' = {}
    /\ swept_written' = {}
    /\ failures' = {}
    /\ self_playwright' = FALSE
    /\ self_browser' = FALSE
    /\ close_calls' = 0
    /\ crawl' = "none"
    /\ release_calls' = {}
    /\ UNCHANGED <<result, run_log, launch_failed, rpc, page_num, all_events, todo,
                   saved_count, page_log, driver_running, browser_open>>
    /\ UNCHANGED <<storeVars, writerVars>>
    /\ UNCHANGED schedVars
    /\ UNCHANGED manualVars
    /\ db_session' = "closed"
    /\ UNCHANGED save_log
    /\ UNCHANGED apiVars
    /\ UNCHANGED selectVars

NextCycle ==
    \/ RunAllScrapersStart
    \/ Construct
    \/ RunStart
    \/ RunSweep
    \/ RunSweepRaises
    \/ InitBrowser
    \/ ScrapePage
    \/ CloseBrowser
    \/ MeetupScrape
    \/ RunSaveEvent
    \/ RunSaveEventRaises
    \/ RunSaved
    \/ RunReturn
    \/ RunAllScrapersEnd

SpecCycle == Init /\ [][NextCycle]_vars

(* One cycle of run_all_scrapers, from its start to db.close(), in which   *)
(* every call that is under way returns or raises: the cycle takes its     *)
(* next step.                                                              *)
NextCycleOnce == NextCycle /\ cyc # "closed"

SpecCycleFair == Init /\ [][NextCycleOnce]_vars /\ WF_vars(NextCycleOnce)

(***************************** the scheduler *******************************)
(* start_scheduler and stop_scheduler are called by the application's      *)
(* startup and shutdown handlers (app/main.py, lines 39-53), one call at a *)
(* time; start_scheduler runs run_all_scrapers on its caller's thread, the *)
(* interval trigger runs it on a thread of the scheduler's pool.  Here a   *)
(* cycle is its three run() calls in order, each a sweep, a browser crawl  *)
(* (eventbrite and timeout) and the save loop.                             *)

Threads == {"caller", "worker"}

(* IntervalTrigger(hours=1), line 52, in ticks of timer.                   *)
Interval == 2

(* The job of lines 50-56.                                                 *)
Job == [id |-> "scrape_events", func |-> "run_all_scrapers", hours |-> 1]

(* add_job(..., replace_existing=True): a job of the same id is replaced.  *)
add_job(jobs, job) == {j \in jobs : j.id # job.id} \cup {job}

(* scheduler.shutdown(), line 69: the scheduler stops and its job store is *)
(* emptied; no trigger fires any more.                                     *)
shutdown_KeepsTrigger(sch) == sch

shutdown(sch) == [running |-> FALSE, jobs |-> {}]

(* The order of start_scheduler, lines 42-63.                              *)
StartStageAfter_NoImmediateRun(stage) ==
    CASE stage = "check" -> "init_db"
      [] stage = "init_db" -> "add_job"
      [] stage = "add_job" -> "start"
      [] OTHER -> "return"

StartStageAfter(stage) ==
    CASE stage = "check" -> "init_db"
      [] stage = "init_db" -> "add_job"
      [] stage = "add_job" -> "start"
      [] stage = "start" -> "run"
      [] OTHER -> "return"

(* The scrapers that drive a headless browser.                             *)
BrowserSources == {"eventbrite", "timeout"}

(* start_scheduler, lines 42-44: nothing to do on a running scheduler.     *)
StartScheduler ==
    /\ spc = "idle"
    /\ call_log' = [NoCall EXCEPT !.op = "start",
                                  !.on_stopped = ~scheduler.running,
                                  !.returned = scheduler.running]
    /\ spc' = IF scheduler.running THEN "idle" ELSE StartStageAfter("check")
    /\ UNCHANGED <<scheduler, timer, thread>>
    /\ UNCHANGED <<storeVars, writerVars, cycleVars, runVars, browserVars>>
    /\ UNCHANGED manualVars
    /\ UNCHANGED sessionVars
    /\ UNCHANGED apiVars
    /\ UNCHANGED selectVars

(* Line 47: init_db().                                                     *)
InitDb ==
    /\ spc = "init_db"
    /\ spc' = StartStageAfter("init_db")
    /\ UNCHANGED <<scheduler, timer, thread, call_log>>
    /\ UNCHANGED <<storeVars, writerVars, cycleVars, runVars, browserVars>>
    /\ UNCHANGED manualVars
    /\ UNCHANGED sessionVars
    /\ UNCHANGED apiVars
    /\ UNCHANGED selectVars

(* Lines 50-56: scheduler.add_job.                                         *)
AddJob ==
    /\ spc = "add_job"
    /\ scheduler' = [scheduler EXCEPT !.jobs = add_job(@, Job)]
    /\ spc' = StartStageAfter("add_job")
    /\ UNCHANGED <<timer, thread, call_log>>
    /\ UNCHANGED <<storeVars, writerVars, cycleVars, runVars, browserVars>>
    /\ UNCHANGED manualVars
    /\ UNCHANGED sessionVars
    /\ UNCHANGED apiVars
    /\ UNCHANGED selectVars

(* Line 58: scheduler.start(); the trigger is first due one interval on.   *)
SchedulerStart ==
    /\ spc = "start"
    /\ scheduler' = [scheduler EXCEPT !.running = TRUE]
    /\ timer' = Interval
    /\ spc' = StartStageAfter("start")
    /\ UNCHANGED <<thread, call_log>>
    /\ UNCHANGED <<storeVars, writerVars, cycleVars, runVars, browserVars>>
    /\ UNCHANGED manualVars
    /\ UNCHANGED sessionVars
    /\ UNCHANGED apiVars
    /\ UNCHANGED selectVars

(* Line 63: run_all_scrapers() on the caller's thread.                     *)
ImmediateRun ==
    /\ spc = "run"
    /\ thread' = [thread EXCEPT !["caller"] = [IdleThread EXCEPT !.active = TRUE]]
    /\ spc' = "cycle"
    /\ UNCHANGED <<scheduler, timer, call_log>>
    /\ UNCHANGED <<storeVars, writerVars, cycleVars, runVars, browserVars>>
    /\ UNCHANGED manualVars
    /\ UNCHANGED sessionVars
    /\ UNCHANGED apiVars
    /\ UNCHANGED selectVars

(* start_scheduler returns.                                                *)
StartReturn ==
    /\ spc = "return"
    /\ spc' = "idle"
    /\ call_log' = [call_log EXCEPT !.returned = TRUE]
    /\ UNCHANGED <<scheduler, timer, thread>>
    /\ UNCHANGED <<storeVars, writerVars, cycleVars, runVars, browserVars>>
    /\ UNCHANGED manualVars
    /\ UNCHANGED sessionVars
    /\ UNCHANGED apiVars
    /\ UNCHANGED selectVars

(* Time goes by while the scheduler runs.                                  *)
TimePasses ==
    /\ scheduler.running
    /\ timer > 0
    /\ timer' = timer - 1
    /\ UNCHANGED <<scheduler, spc, thread, call_log>>
    /\ UNCHANGED <<storeVars, writerVars, cycleVars, runVars, browserVars>>
    /\ UNCHANGED manualVars
    /\ UNCHANGED sessionVars
    /\ UNCHANGED apiVars
    /\ UNCHANGED selectVars

(* The interval trigger is due: the scheduler submits run_all_scrapers to  *)
(* its pool.                                                               *)
TriggerFire ==
    /\ scheduler.running
    /\ scheduler.jobs # {}
    /\ timer = 0
    /\ ~thread["worker"].active
    /\ thread' = [thread EXCEPT !["worker"] = [IdleThread EXCEPT !.active = TRUE]]
    /\ timer' = Interval
    /\ UNCHANGED <<scheduler, spc, call_log>>
    /\ UNCHANGED <<storeVars, writerVars, cycleVars, runVars, browserVars>>
    /\ UNCHANGED manualVars
    /\ UNCHANGED sessionVars
    /\ UNCHANGED apiVars
    /\ UNCHANGED selectVars

(* The trigger is due while the instance it fired before still runs: the   *)
(* job allows one instance (max_instances defaults to 1), the run is       *)
(* skipped.                                                                *)
TriggerSkip ==
    /\ scheduler.running
    /\ scheduler.jobs # {}
    /\ timer = 0
    /\ thread["worker"].active
    /\ timer' = Interval
    /\ UNCHANGED <<scheduler, spc, thread, call_log>>
    /\ UNCHANGED <<storeVars, writerVars, cycleVars, runVars, browserVars>>
    /\ UNCHANGED manualVars
    /\ UNCHANGED sessionVars
    /\ UNCHANGED apiVars
    /\ UNCHANGED selectVars

(* run_all_scrapers, line 29: scraper.run() of the next scraper starts.    *)
ThreadRunBegin(t) ==
    /\ thread[t].active
    /\ thread[t].phase = "between"
    /\ thread[t].done < Len(ScraperOrder)
    /\ thread' = [thread EXCEPT ![t].phase = "sweep"]
    /\ UNCHANGED <<scheduler, timer, spc, call_log>>
    /\ UNCHANGED <<storeVars, writerVars, cycleVars, runVars, browserVars>>
    /\ UNCHANGED manualVars
    /\ UNCHANGED sessionVars
    /\ UNCHANGED apiVars
    /\ UNCHANGED selectVars

(* run(), line 160: scrape().  eventbrite and timeout launch a browser,    *)
(* unless the launch fails.                                                *)
ThreadCrawl(t) ==
    /\ thread[t].phase = "sweep"
    /\ \E launched \in BOOLEAN :
          thread' = [thread EXCEPT ![t].phase =
              IF launched /\ ScraperOrder[thread[t].done + 1] \in BrowserSources
              THEN "crawl" ELSE "persist"]
    /\ UNCHANGED <<scheduler, timer, spc, call_log>>
    /\ UNCHANGED <<storeVars, writerVars, cycleVars, runVars, browserVars>>
    /\ UNCHANGED manualVars
    /\ UNCHANGED sessionVars
    /\ UNCHANGED apiVars
    /\ UNCHANGED selectVars

(* _close_browser: the crawl is over.                                      *)
ThreadCrawlEnd(t) ==
    /\ thread[t].phase = "crawl"
    /\ thread' = [thread EXCEPT ![t].phase = "persist"]
    /\ UNCHANGED <<scheduler, timer, spc, call_log>>
    /\ UNCHANGED <<storeVars, writerVars, cycleVars, runVars, browserVars>>
    /\ UNCHANGED manualVars
    /\ UNCHANGED sessionVars
    /\ UNCHANGED apiVars
    /\ UNCHANGED selectVars

(* run() returns.                                                          *)
ThreadRunEnd(t) ==
    /\ thread[t].phase = "persist"
    /\ thread' = [thread EXCEPT ![t].phase = "between", ![t].done = @ + 1]
    /\ UNCHANGED <<scheduler, timer, spc, call_log>>
    /\ UNCHANGED <<storeVars, writerVars, cycleVars, runVars, browserVars>>
    /\ UNCHANGED manualVars
    /\ UNCHANGED sessionVars
    /\ UNCHANGED apiVars
    /\ UNCHANGED selectVars

(* run_all_scrapers returns: to start_scheduler on the caller's thread, to *)
(* the pool on the worker's.                                               *)
ThreadCycleEnd(t) ==
    /\ thread[t].active
    /\ thread[t].phase = "between"
    /\ thread[t].done = Len(ScraperOrder)
    /\ thread' = [thread EXCEPT ![t] = IdleThread]
    /\ IF t = "caller"
       THEN /\ spc' = StartStageAfter("run")
            /\ call_log' = [call_log EXCEPT !.cycles = @ + 1,
                                            !.runs = thread[t].done]
       ELSE UNCHANGED <<spc, call_log>>
    /\ UNCHANGED <<scheduler, timer>>
    /\ UNCHANGED <<storeVars, writerVars, cycleVars, runVars, browserVars>>
    /\ UNCHANGED manualVars
    /\ UNCHANGED sessionVars
    /\ UNCHANGED apiVars
    /\ UNCHANGED selectVars

(* stop_scheduler, lines 68-69: shutdown() of a running scheduler.         *)
StopScheduler ==
    /\ spc = "idle"
    /\ call_log' = [NoCall EXCEPT !.op = "stop",
                                  !.on_stopped = ~scheduler.running,
                                  !.returned = ~scheduler.running,
                                  !.inflight = thread["worker"].active]
    /\ IF scheduler.running
       THEN /\ scheduler' = shutdown(scheduler)
            /\ spc' = "stop_wait"
       ELSE UNCHANGED <<scheduler, spc>>
    /\ UNCHANGED <<timer, thread>>
    /\ UNCHANGED <<storeVars, writerVars, cycleVars, runVars, browserVars>>
    /\ UNCHANGED manualVars
    /\ UNCHANGED sessionVars
    /\ UNCHANGED apiVars
    /\ UNCHANGED selectVars

(* shutdown() waits for the pool (wait defaults to True): it returns once  *)
(* the instance in flight has returned.                                    *)
StopReturn ==
    /\ spc = "stop_wait"
    /\ ~thread["worker"].active
    /\ spc' = "idle"
    /\ call_log' = [call_log EXCEPT !.returned = TRUE]
    /\ UNCHANGED <<scheduler, timer, thread>>
    /\ UNCHANGED <<storeVars, writerVars, cycleVars, runVars, browserVars>>
    /\ UNCHANGED manualVars
    /\ UNCHANGED sessionVars
    /\ UNCHANGED apiVars
    /\ UNCHANGED selectVars

NextSched ==
    \/ StartScheduler
    \/ InitDb
    \/ AddJob
    \/ SchedulerStart
    \/ ImmediateRun
    \/ StartReturn
    \/ TimePasses
    \/ TriggerFire
    \/ TriggerSkip
    \/ \E t \in Threads : ThreadRunBegin(t)
    \/ \E t \in Threads : ThreadCrawl(t)
    \/ \E t \in Threads : ThreadCrawlEnd(t)
    \/ \E t \in Threads : ThreadRunEnd(t)
    \/ \E t \in Threads : ThreadCycleEnd(t)
    \/ StopScheduler
    \/ StopReturn

SpecSched == Init /\ [][NextSched]_vars


(*************************** the manual trigger ****************************)
(* run_scrapers.main: one scraper per source, run() of each in turn, the   *)
(* counts added up, the total logged.  run() of a scraper returns its      *)
(* saved count (0 after a whole-run failure); the loop also provides for a *)
(* run() that raises.                                                      *)

(* Line 42: total_events += count.                                         *)
AddCount_LastOnly(total, count) == count

AddCount(total, count) == total + count

RECURSIVE SumCounts(_)
SumCounts(cs) ==
    IF cs = <<>> THEN 0
    ELSE (IF Head(cs)[1] = "int" THEN Head(cs)[2] ELSE 0) + SumCounts(Tail(cs))

(* Lines 16-34: init_db, the session, the three scrapers, total_events = 0. *)
ManualMain ==
    /\ mpc = "idle"
    /\ mpc' = "loop"
    /\ total_events' = 0
    /\ counts' = <<>>
    /\ report' = None
    /\ UNCHANGED <<storeVars, writerVars, cycleVars, runVars, browserVars, schedVars>>
    /\ UNCHANGED sessionVars
    /\ UNCHANGED apiVars
    /\ UNCHANGED selectVars

(* Lines 41-43: scraper.run() returns a count.                             *)
ManualRunReturns ==
    /\ mpc = "loop"
    /\ Len(counts) < Len(ScraperOrder)
    /\ \E count \in 0..MaxSaved :
          /\ counts' = Append(counts, <<"int", count>>)
          /\ total_events' = AddCount(total_events, count)
    /\ UNCHANGED <<mpc, report>>
    /\ UNCHANGED <<storeVars, writerVars, cycleVars, runVars, browserVars, schedVars>>
    /\ UNCHANGED sessionVars
    /\ UNCHANGED apiVars
    /\ UNCHANGED selectVars

(* Lines 44-46: scraper.run() raises; the failure is logged, the loop      *)
(* goes on.                                                                *)
ManualRunRaises ==
    /\ mpc = "loop"
    /\ Len(counts) < Len(ScraperOrder)
    /\ counts' = Append(counts, <<"raise", 0>>)
    /\ UNCHANGED <<mpc, total_events, report>>
    /\ UNCHANGED <<storeVars, writerVars, cycleVars, runVars, browserVars, schedVars>>
    /\ UNCHANGED sessionVars
    /\ UNCHANGED apiVars
    /\ UNCHANGED selectVars

(* Lines 48-50: the loop is through, the total is logged.                  *)
ManualReport ==
    /\ mpc = "loop"
    /\ Len(counts) = Len(ScraperOrder)
    /\ report' = Some(total_events)
    /\ mpc' = "close"
    /\ UNCHANGED <<total_events, counts>>
    /\ UNCHANGED <<storeVars, writerVars, cycleVars, runVars, browserVars, schedVars>>
    /\ UNCHANGED sessionVars
    /\ UNCHANGED apiVars
    /\ UNCHANGED selectVars

(* Lines 52-53: db.close(); main returns.                                  *)
ManualClose ==
    /\ mpc = "close"
    /\ mpc' = "idle"
    /\ UNCHANGED <<total_events, counts, report>>
    /\ UNCHANGED <<storeVars, writerVars, cycleVars, runVars, browserVars, schedVars>>
    /\ UNCHANGED sessionVars
    /\ UNCHANGED apiVars
    /\ UNCHANGED selectVars

NextManual ==
    \/ ManualMain
    \/ ManualRunReturns
    \/ ManualRunRaises
    \/ ManualReport
    \/ ManualClose

SpecManual == Init /\ [][NextManual]_vars

(* main is one sequential program: it keeps taking its next step.          *)
SpecManualFair == SpecManual /\ WF_vars(NextManual)

(****************************** SpecApi ************************************)
(* The store as the scrapers and the event requests of app/api/events.py   *)
(* change and read it, one statement at a time.                            *)

MaxApiTime == 4

MaxClicks == 2

(* get_events with its default arguments but include_expired (lines 28-34  *)
(* and 73): the ids of the rows the query selects.                         *)
get_events_ByDate(store, include_expired, t) ==
    {r.id : r \in {x \in store : include_expired \/ x.date_time >= t}}

get_events(store, include_expired, t) ==
    {r.id : r \in {x \in store : include_expired \/ x.expires_at = None}}

(* get_event, lines 86-94: click_count += 1 on the row found, committed;   *)
(* the UPDATE carries onupdate=utcnow for updated_at.                      *)
get_event(store, id, t) ==
    { IF r.id = id
      THEN [r EXCEPT !.click_count = r.click_count + 1, !.updated_at = t]
      ELSE r : r \in store }

(* save_event(event_data) of a scraper of source src.                      *)
ApiSaveEvent(src) ==
    /\ now < MaxApiTime
    /\ \E url \in TicketUrls, f \in RaceCards :
          LET data == EventData(url, f, src)
              snap == check_duplicate(events, url)
              res == save_event(events, snap, data, now) IN
          /\ events' = res[1]
          /\ last' = Statement(res[2], data, snap, src, now, events)
    /\ now' = now + 1
    /\ UNCHANGED <<writerVars, cycleVars, runVars, browserVars>>
    /\ UNCHANGED <<schedVars, manualVars, sessionVars, apiVars>>
    /\ UNCHANGED selectVars

(* mark_expired_events of a scraper of source src.                         *)
ApiMarkExpiredEvents(src) ==
    /\ now < MaxApiTime
    /\ events' = mark_expired_events(events, src, now)
    /\ last' = Statement("sweep", NoData, None, src, now, events)
    /\ ever_expired' = ever_expired \cup
          {r.id : r \in {x \in events : SweepMatches(x, src, now)}}
    /\ now' = now + 1
    /\ UNCHANGED response
    /\ UNCHANGED <<writerVars, cycleVars, runVars, browserVars>>
    /\ UNCHANGED <<schedVars, manualVars, sessionVars>>
    /\ UNCHANGED selectVars

(* GET /api/events/{event_id} for a row of the table.                      *)
GetEvent ==
    /\ now < MaxApiTime
    /\ \E r \in events :
          /\ r.click_count < MaxClicks
          /\ events' = get_event(events, r.id, now)
          /\ last' = Statement("click", NoData, Some(r), r.source, now, events)
    /\ now' = now + 1
    /\ UNCHANGED <<writerVars, cycleVars, runVars, browserVars>>
    /\ UNCHANGED <<schedVars, manualVars, sessionVars, apiVars>>
    /\ UNCHANGED selectVars

(* GET /api/events, with include_expired given or left at its default.     *)
GetEvents ==
    /\ \E include_expired \in BOOLEAN :
          response' = [include_expired |-> include_expired, time |-> now,
                       ids |-> get_events(events, include_expired, now)]
    /\ UNCHANGED ever_expired
    /\ UNCHANGED <<storeVars, writerVars, cycleVars, runVars, browserVars>>
    /\ UNCHANGED <<schedVars, manualVars, sessionVars>>
    /\ UNCHANGED selectVars

NextApi ==
    \/ \E src \in RaceSources : ApiSaveEvent(src)
    \/ \E src \in RaceSources : ApiMarkExpiredEvents(src)
    \/ GetEvent
    \/ GetEvents

SpecApi == Init /\ [][NextApi]_vars

(***************************** SpecSelect **********************************)
(* _scrape_page from the parsed page to the cards it hands to              *)
(* _extract_event_data, as a function of what each selector matches.       *)

CardLimit == 50

EventbriteCssLimit == 20

TimeoutCssLimit == 30

MatchCounts == {0, 1, 3, EventbriteCssLimit + 1, TimeoutCssLimit + 1, CardLimit + 1}

Min(a, b) == IF a <= b THEN a ELSE b

(* The order of the `or` chain: eventbrite.py lines 61-63 with the         *)
(* alternative of lines 66-68 behind it, timeout.py lines 61-63.           *)
SelectorOrder_Uniform(src) == <<"class", "semantic", "attribute">>

SelectorOrder(src) ==
    IF src = "eventbrite"
    THEN <<"class", "semantic", "attribute", "css">>
    ELSE <<"semantic", "class", "css">>

(* The slice on the result of soup.select: [:20] and [:30].                *)
Sliced(src, selector, n) ==
    IF selector = "css"
    THEN Min(n, IF src = "eventbrite" THEN EventbriteCssLimit ELSE TimeoutCssLimit)
    ELSE n

(* `a or b or c`: the first list of the chain that is not empty.           *)
RECURSIVE FirstNonEmpty(_, _)
FirstNonEmpty(order, matches) ==
    IF order = <<>> THEN "none"
    ELSE IF matches[Head(order)] > 0 THEN Head(order)
    ELSE FirstNonEmpty(Tail(order), matches)

(* event_cards and the cards the loop `for card in event_cards[:50]` takes. *)
find_cards(src, matches) ==
    LET by == FirstNonEmpty(SelectorOrder(src), matches)
        found == IF by = "none" THEN 0 ELSE Sliced(src, by, matches[by]) IN
    [by |-> by, found |-> found, processed |-> Min(found, CardLimit)]

SelectInputs ==
    /\ sel_source \in BrowserSources
    /\ soup \in [Selectors -> MatchCounts]
    /\ event_cards = None

InitSelect ==
    /\ StoreInit /\ WriterInit /\ CycleInit /\ SchedInit /\ ManualInit
    /\ ApiInit /\ SelectInputs

(* _scrape_page, from the soup to the end of the card loop.                *)
SelectCards ==
    /\ event_cards = None
    /\ event_cards' = Some(find_cards(sel_source, soup))
    /\ UNCHANGED <<sel_source, soup>>
    /\ UNCHANGED <<storeVars, writerVars, cycleVars, runVars, browserVars>>
    /\ UNCHANGED <<schedVars, manualVars, sessionVars, apiVars>>

NextSelect == SelectCards

SpecSelect == InitSelect /\ [][NextSelect]_vars


(******************************* claims ************************************)

(* C1: in every reachable state of the store, under every interleaving of  *)
(* the SELECTs and commits of overlapping save_event calls and of sweeps,  *)
(* no two stored event records have the same ticket_url.                   *)
C1_UniqueTicketUrl ==
    \A r1 \in events, r2 \in events :
        r1.ticket_url = r2.ticket_url => r1 = r2

(* Two overlapping save_event calls both found no row for the URL; the     *)
(* first INSERT went in and the second was refused.                        *)
C1_Witness ==
    /\ last.op = "raised"
    /\ Cardinality(RowsOf(events, last.data.ticket_url)) = 1
    /\ \E p \in Procs : pc[p] = "idle"

(* C2: when a candidate is upserted after another with the same ticket_url *)
(* the store holds exactly one record with that ticket_url; its title,     *)
(* date_time, location, description, image_url and source are the second   *)
(* candidate's, its ticket_url (and id) are unchanged, and its updated_at  *)
(* is later than before the second upsert.                                 *)
C2_SecondUpsertWins ==
    last.op = "updated" =>
        LET d == last.data
            old == last.snapshot[1]
            rows == RowsOf(events, d.ticket_url) IN
        /\ Cardinality(rows) = 1
        /\ \A r \in rows :
              /\ r.title = d.title
              /\ r.date_time = d.date_time
              /\ r.location = d.location
              /\ r.description = d.description
              /\ r.image_url = d.image_url
              /\ r.source = d.source
              /\ r.ticket_url = old.ticket_url
              /\ r.id = old.id
              /\ r.updated_at > old.updated_at

(* The second candidate differed from the stored record in every field.    *)
C2_Witness ==
    /\ last.op = "updated"
    /\ LET d == last.data
           old == last.snapshot[1] IN
       /\ old.title # d.title
       /\ old.date_time # d.date_time
       /\ old.location # d.location
       /\ old.description # d.description
       /\ old.image_url # d.image_url
       /\ old.source # d.source
       /\ \E r \in events : r.ticket_url = d.ticket_url /\ r.title = d.title

(* C3, as claimed: upserting the same unchanged candidate a second time    *)
(* leaves the store exactly as it was after the first upsert, every stored *)
(* field of every record equal.                                            *)
C3_SameStoredState ==
    last.repeat => events = last.before

(* C3, amended: upserting the same unchanged candidate a second time       *)
(* leaves the same set of records with every stored field equal, except    *)
(* the updated_at of the upserted record, which moves to the time of the   *)
(* second upsert.                                                          *)
C3_SameStateButUpdatedAt ==
    last.repeat =>
        /\ events = { IF b.ticket_url = last.data.ticket_url
                      THEN [b EXCEPT !.updated_at = last.time]
                      ELSE b : b \in last.before }
        /\ \A b \in RowsOf(last.before, last.data.ticket_url) :
              b.updated_at < last.time

(* The same candidate was upserted twice in a row, next to another record. *)
C3_Witness ==
    /\ last.repeat
    /\ Cardinality(events) = 2
    /\ \E r \in events :
          r.ticket_url = last.data.ticket_url /\ r.updated_at > r.created_at

C5_ExpiresAtFrozen ==
    [][\A r \in events :
          r.expires_at # None =>
             \E r2 \in events' : r2.id = r.id /\ r2.expires_at = r.expires_at]_vars

(* A record expired, was then upserted again, and a later sweep of its     *)
(* source found it stale once more.                                        *)
C5_Witness ==
    /\ last.op = "sweep"
    /\ \E r \in events :
          /\ r.expires_at # None
          /\ r.expires_at[1] < r.updated_at
          /\ r.updated_at < last.time
          /\ r.source = last.source
          /\ r.date_time < last.time - Day

(* C6: within one run() the sweep happens exactly once and before the      *)
(* first page fetch, and every page fetch happens before the first upsert; *)
(* so the sweep of a run never acts on a record that run has written.      *)
C6_SweepThenFetchThenSave ==
    /\ Len(run_trace) >= 1 => run_trace[1] = "sweep"
    /\ \A i \in 1..Len(run_trace) : run_trace[i] = "sweep" => i = 1
    /\ \A i \in 1..Len(run_trace), j \in 1..Len(run_trace) :
          (i < j /\ run_trace[i] = "upsert") => run_trace[j] = "upsert"
    /\ swept_written = {}

(* A run swept, fetched two pages and is saving; a record that a sweep had *)
(* expired has been updated by this run.                                   *)
C6_Witness ==
    /\ Len(run_trace) >= 4
    /\ run_trace[1] = "sweep" /\ run_trace[2] = "fetch" /\ run_trace[3] = "fetch"
    /\ run_trace[Len(run_trace)] = "upsert"
    /\ \E r \in events :
          /\ r.id \in written
          /\ r.expires_at # None
          /\ r.expires_at[1] < r.updated_at

(* C7: in every cycle of run_all_scrapers, run() of each source is invoked *)
(* exactly once, in the order eventbrite, meetup, timeout, each after the  *)
(* previous one has returned, whatever failed in the earlier runs.         *)
C7_EverySourceRunsInOrder ==
    /\ Len(run_log) <= 3
    /\ \A i \in 1..Len(run_log) :
          /\ run_log[i] = <<"eventbrite", "meetup", "timeout">>[i]
          /\ i < Len(run_log) => result[run_log[i]] # None
    /\ cyc = "closed" =>
          /\ Len(run_log) = 3
          /\ \A s \in Sources : result[s] # None

(* The cycle is through: eventbrite failed at browser launch and returned  *)
(* 0, and timeout, run after it, saved a record.                           *)
C7_Witness ==
    /\ cyc = "closed"
    /\ "eventbrite" \in launch_failed
    /\ result["eventbrite"] = Some(<<"int", 0>>)
    /\ result["timeout"] # None
    /\ result["timeout"][1][2] >= 1
    /\ \E r \in events : r.source = "timeout"

(* C8: run() never propagates an exception: whatever fails in the sweep,   *)
(* the browser launch, the crawl or the teardown, run() returns an         *)
(* integer, and it returns 0 when the failure is a whole-run failure.      *)
C8_RunReturnsInteger ==
    /\ \A s \in Sources :
          result[s] # None =>
             /\ result[s][1][1] = "int"
             /\ result[s][1][2] \in Nat
    /\ (cyc = "loop" /\ rpc = "idle" /\ Len(run_log) >= 1 /\ failures # {}) =>
          result[run_log[Len(run_log)]] = Some(<<"int", 0>>)

(* A run whose crawl had extracted a candidate met an exception in the     *)
(* teardown and returned 0.                                                *)
C8_Witness ==
    /\ cyc = "loop" /\ rpc = "idle" /\ Len(run_log) >= 1
    /\ "teardown" \in failures
    /\ run_trace = <<"sweep", "fetch", "fetch">>
    /\ result[run_log[Len(run_log)]] = Some(<<"int", 0>>)

(* C9: on every exit path of a crawl, a failure of the teardown itself     *)
(* included, _close_browser has been invoked exactly once and both the     *)
(* browser and the automation driver started in the crawl have been        *)
(* released (each is gone, or its release call has been made).             *)
C9_TeardownReleasesBoth ==
    crawl = "returned" =>
        /\ close_calls = 1
        /\ browser_open => "browser" \in release_calls
        /\ driver_running => "driver" \in release_calls

(* C10: when reading robots.txt fails at construction the scraper is still *)
(* built and its policy is permissive: can_fetch is true for every URL.    *)
C10_FailOpenPolicy ==
    \A s \in Sources :
        robots_failed[s] =>
            /\ robot_parser[s] # None
            /\ \A u \in ListingUrls : can_fetch(robot_parser[s], u)

(* C11: the browser navigates to a listing URL only when can_fetch has     *)
(* answered true for it in the same _scrape_page call; a URL can_fetch     *)
(* refuses is not navigated to and adds no candidate to the crawl.         *)
C11_NavigationOnlyWhenAllowed ==
    /\ \A i \in 1..Len(page_log) :
          /\ page_log[i].nav # "skipped" =>
                can_fetch(robot_parser[Cur], page_log[i].page)
          /\ ~can_fetch(robot_parser[Cur], page_log[i].page) =>
                /\ page_log[i].nav = "skipped"
                /\ page_log[i].cards = <<>>
    /\ rpc \in {"page", "close"} => all_events = LoggedEvents(page_log)

(* Page 1 was allowed and gave a candidate, page 2 is disallowed by        *)
(* robots.txt: it was skipped and the crawl holds the one candidate.       *)
C11_Witness ==
    /\ Len(page_log) = 2
    /\ page_log[1].nav = "ok"
    /\ page_log[2].nav = "skipped"
    /\ ~can_fetch(robot_parser[Cur], 2)
    /\ Len(all_events) = 1

(* C12: at every moment at most one source run is in progress and at most  *)
(* one headless browser is open, counting the cycle start_scheduler runs   *)
(* on its caller's thread and the cycles the interval trigger fires.       *)
C12_OneRunOneBrowser ==
    /\ Cardinality({t \in Threads : thread[t].phase # "between"}) <= 1
    /\ Cardinality({t \in Threads : thread[t].phase = "crawl"}) <= 1

(* C13: once start_scheduler, called on a stopped scheduler, has returned, *)
(* the scheduler runs with exactly one job, the hourly run_all_scrapers,   *)
(* and the call has run exactly one cycle of all three sources on its own  *)
(* thread, over before it returned.                                        *)
C13_StartRegistersAndRunsOnce ==
    /\ call_log.cycles <= 1
    /\ (call_log.op = "start" /\ call_log.on_stopped /\ call_log.returned) =>
          /\ scheduler.running
          /\ scheduler.jobs = {Job}
          /\ Cardinality(scheduler.jobs) = 1
          /\ call_log.cycles = 1
          /\ call_log.runs = Len(ScraperOrder)
          /\ ~thread["caller"].active

(* start_scheduler has returned from a stopped scheduler, and the trigger  *)
(* it registered has since fired a cycle of its own.                       *)
C13_Witness ==
    /\ call_log.op = "start" /\ call_log.on_stopped /\ call_log.returned
    /\ spc = "idle"
    /\ call_log.cycles = 1
    /\ thread["worker"].active

(* C14: after stop_scheduler has returned the trigger starts no cycle; a   *)
(* cycle in flight when stop_scheduler is called goes on through its       *)
(* remaining sources, ends only after the last of them, and is over when   *)
(* stop_scheduler returns.                                                 *)
C14_StopCancelsOnlyTheTrigger ==
    /\ []((call_log.op = "stop" /\ call_log.returned) => ~thread["worker"].active)
    /\ [][ /\ (~thread["worker"].active /\ thread'["worker"].active) =>
                ~(call_log.op = "stop" /\ call_log.returned)
           /\ \A t \in Threads :
                /\ (thread[t].active /\ ~thread'[t].active) =>
                      thread[t].done = Len(ScraperOrder)
                /\ (thread[t].active /\ thread'[t].active) =>
                      \/ thread'[t] = thread[t]
                      \/ /\ thread'[t].done = thread[t].done
                         /\ thread[t].phase # "persist"
                         /\ thread'[t].phase # "between"
                      \/ /\ thread'[t].done = thread[t].done + 1
                         /\ thread[t].phase = "persist"
                         /\ thread'[t].phase = "between" ]_vars

(* stop_scheduler was called while a cycle fired by the trigger was in     *)
(* flight, and has returned.                                               *)
C14_Witness ==
    /\ call_log.op = "stop"
    /\ call_log.inflight
    /\ call_log.returned
    /\ ~scheduler.running
    /\ spc = "idle"

(* C15: a card without an anchor carrying an href yields no candidate and  *)
(* no record; every candidate of a crawl and every record a run writes has *)
(* a non-empty ticket_url made from the href of a card's first anchor.     *)
C15_NoLinkNoRecord ==
    /\ rpc \in {"page", "close"} =>
          Len(all_events) =
             Cardinality({ij \in (1..Len(page_log)) \X (1..2) :
                             /\ ij[2] <= Len(page_log[ij[1]].cards)
                             /\ page_log[ij[1]].cards[ij[2]].href # None})
    /\ \A k \in 1..Len(all_events) :
          /\ all_events[k].ticket_url # ""
          /\ \E h \in Hrefs : all_events[k].ticket_url = ResolveHref(h)
    /\ \A k \in 1..Len(todo) : todo[k].ticket_url # ""
    /\ \A r \in events :
          /\ r.ticket_url # ""
          /\ \E h \in Hrefs : r.ticket_url = ResolveHref(h)

(* A page showed a card without a link and a card with one; the run saved  *)
(* one record, that of the second card.                                    *)
C15_Witness ==
    /\ rpc = "persist"
    /\ todo = <<>>
    /\ saved_count = 1
    /\ Cardinality(events) = 1
    /\ \E i \in 1..Len(page_log) :
          /\ Len(page_log[i].cards) = 2
          /\ page_log[i].cards[1].href = None
          /\ \E r \in events :
                r.ticket_url = ResolveHref(page_log[i].cards[2].href[1])

(* C16: right after a successful upsert by the run of source S the stored  *)
(* record of that ticket_url has source S, whatever source the candidate   *)
(* came with and whatever source the record had before.                    *)
C16_SourceStampedByRun ==
    (rpc = "persist" /\ last.op \in {"created", "updated"}) =>
        /\ last.source = Cur
        /\ \A r \in events :
              r.ticket_url = last.data.ticket_url => r.source = Cur

(* The meetup run got a candidate that came with source eventbrite, for a  *)
(* record eventbrite had created; the upsert left the record with source   *)
(* meetup.                                                                 *)
C16_Witness ==
    /\ rpc = "persist"
    /\ Cur = "meetup"
    /\ saved_count = 1
    /\ Len(all_events) = 1
    /\ "source" \in DOMAIN all_events[1]
    /\ all_events[1].source = "eventbrite"
    /\ last.op = "updated"
    /\ last.snapshot # None
    /\ last.snapshot[1].source = "eventbrite"
    /\ \E r \in events :
          r.ticket_url = all_events[1].ticket_url /\ r.source = "meetup"

(* C17: run_scrapers.main always reaches its final report, whichever runs  *)
(* fail, and the total it reports is the sum of the counts the runs        *)
(* returned, a run that failed adding 0.                                   *)
C17_ManualRunReportsTotal ==
    /\ [](report # None =>
            /\ Len(counts) = Len(ScraperOrder)
            /\ report[1] = SumCounts(counts))
    /\ (mpc = "loop") ~> (report # None)

(* main has reported: one run raised, one returned 0 and one returned 2.   *)
C17_Witness ==
    /\ report = Some(2)
    /\ mpc = "close"
    /\ \E i \in 1..Len(counts) : counts[i][1] = "raise"
    /\ \E i \in 1..Len(counts) : counts[i] = <<"int", 0>>
    /\ \E i \in 1..Len(counts) : counts[i] = <<"int", 2>>

(* C18: the pages of a crawl are fetched in the order 1, 2, ..., at most 3 *)
(* for eventbrite and 2 for timeout, and a page is fetched only if every   *)
(* page before it gave at least one candidate.                             *)
C18_PagesInOrderUntilEmpty ==
    /\ \A i \in 1..Len(page_log) :
          /\ page_log[i].page = i
          /\ i < Len(page_log) =>
                /\ page_log[i].nav = "ok"
                /\ \E j \in 1..Len(page_log[i].cards) :
                      page_log[i].cards[j].href # None
    /\ (Len(page_log) >= 1 /\ Cur = "eventbrite") => Len(page_log) <= 3
    /\ (Len(page_log) >= 1 /\ Cur = "timeout") => Len(page_log) <= 2
    /\ rpc = "page" => page_num = Len(page_log) + 1

(* eventbrite fetched its three pages, each with a candidate, and the page *)
(* loop is over.                                                           *)
C18_Witness ==
    /\ rpc = "close"
    /\ Len(page_log) = 3
    /\ Cur = "eventbrite"
    /\ \A i \in 1..3 : page_log[i].nav = "ok"
    /\ Len(all_events) = 3

(* C19: when the navigation to a listing page fails, the crawl goes on to  *)
(* the next page, if there is one within the bound, provided an earlier    *)
(* page of the crawl gave candidates, and ends otherwise.                  *)
C19_ContinuesAfterNavigationFailure ==
    ( /\ rpc \in {"page", "close"}
      /\ Len(page_log) >= 1
      /\ page_log[Len(page_log)].nav = "raises" ) =>
        IF /\ \E i \in 1..(Len(page_log) - 1) : ExtractPage(page_log[i].cards) # <<>>
           /\ Len(page_log) < (IF Cur = "timeout" THEN 2 ELSE 3)
        THEN rpc = "page"
        ELSE rpc = "close"

Attempts(log) == SelectSeq(log, LAMBDA x : x # "wait")

C21_FailedUpsertIsLocal ==
    /\ rpc = "persist" =>
          Len(Attempts(save_log)) + Len(todo) = Len(all_events)
    /\ \A i \in 1..Len(save_log) : save_log[i] # "pending_rollback"


(***************************************************************************)
(* C22: within one run a rate-limit wait lies between every two successive *)
(* upsert attempts, whether the earlier one succeeded or failed, and       *)
(* within one crawl a delay lies between every two successive page         *)
(* fetches.                                                                *)
(***************************************************************************)
DelayBetweenFetches ==
    \A i \in 1..Len(page_log) :
       i < Len(page_log) /\ page_log[i].nav # "skipped" => page_log[i].delay

C22_WaitBetweenAttempts ==
    /\ \A i \in 1..Len(save_log) :
          i < Len(save_log) /\ save_log[i] # "wait" => save_log[i + 1] = "wait"
    /\ DelayBetweenFetches

(* C22 as the code has it: the wait follows every upsert that succeeded,   *)
(* before the next attempt; after an attempt that failed the next attempt  *)
(* follows with no wait; the delay between page fetches is as claimed.     *)
C22_WaitAfterSuccessOnly ==
    /\ \A i \in 1..Len(save_log) :
          /\ save_log[i] = "saved" =>
                i < Len(save_log) /\ save_log[i + 1] = "wait"
          /\ save_log[i] \in {"refused", "pending_rollback"} /\ i < Len(save_log)
                => save_log[i + 1] # "wait"
    /\ DelayBetweenFetches

C22_Witness ==
    /\ \E i \in 1..Len(save_log) :
          save_log[i] = "saved" /\ i + 2 <= Len(save_log)
    /\ \E i \in 1..Len(save_log) :
          save_log[i] = "refused" /\ i < Len(save_log)
    /\ Len(page_log) >= 2
    /\ page_log[1].nav = "ok"
    /\ page_log[2].nav = "ok"


(***************************************************************************)
(* C23: an upsert that hits an existing record leaves its id, ticket_url,  *)
(* created_at, expires_at and click_count as they were and leaves every    *)
(* other record as it was; an upsert that inserts leaves every existing    *)
(* record as it was and the new record has expires_at null.                *)
(***************************************************************************)
FrameColumns == {"id", "ticket_url", "created_at", "expires_at", "click_count"}

C23_UpsertFrame ==
    /\ last.op = "updated" =>
          \E old \in last.before, r \in events :
             /\ old.ticket_url = last.data.ticket_url
             /\ \A k \in FrameColumns : r[k] = old[k]
             /\ events \ {r} = last.before \ {old}
    /\ last.op = "created" =>
          \E r \in events :
             /\ r \notin last.before
             /\ events = last.before \cup {r}
             /\ r.ticket_url = last.data.ticket_url
             /\ r.expires_at = None

C23_Witness ==
    /\ last.op = "updated"
    /\ Cardinality(events) = 2
    /\ \E r \in events :
          /\ r.ticket_url = last.data.ticket_url
          /\ r.click_count > 0
          /\ r.title = last.data.title
          /\ r \notin last.before


(***************************************************************************)
(* C24: the value run() returns is the number of candidates of the run     *)
(* whose upsert completed, one per save_event call that returned: it is    *)
(* never more than the number of candidates extracted and counts no        *)
(* candidate whose upsert raised.                                          *)
(***************************************************************************)
Saved(log) == SelectSeq(log, LAMBDA x : x = "saved")

ClaimedOrder(src) ==
    IF src = "eventbrite" THEN <<"class", "semantic", "attribute">>
    ELSE <<"class", "semantic", "css">>

C25_ClassThenSemanticThenAttribute ==
    event_cards # None =>
       /\ event_cards[1].by = FirstNonEmpty(ClaimedOrder(sel_source), soup)
       /\ event_cards[1].processed <= CardLimit
       /\ event_cards[1].by = "none" => event_cards[1].processed = 0

(* C25 as the code has it.  eventbrite: class-name substring, semantic     *)
(* element, data-testid substring, then the CSS class selector cut to 20.  *)
(* timeout: semantic element first, then class-name substring, then the    *)
(* CSS class selector cut to 30.  The first selector of the source's order *)
(* that matches gives the cards, at most 50 of them are processed, and a   *)
(* page none of them matches gives no card.                                *)
Rank(src) ==
    IF src = "eventbrite"
    THEN [class |-> 1, semantic |-> 2, attribute |-> 3, css |-> 4]
    ELSE [semantic |-> 1, class |-> 2, css |-> 3]

C25_SelectorOrderPerSource ==
    event_cards # None =>
       LET rank == Rank(sel_source)
           sel == event_cards[1] IN
       IF \A k \in DOMAIN rank : soup[k] = 0
       THEN sel.by = "none" /\ sel.processed = 0
       ELSE /\ sel.by \in DOMAIN rank
            /\ soup[sel.by] > 0
            /\ \A k \in DOMAIN rank : rank[k] < rank[sel.by] => soup[k] = 0
            /\ sel.processed >= 1
            /\ sel.processed <= CardLimit
            /\ sel.processed <= soup[sel.by]
            /\ sel.by # "css" => sel.processed = Min(soup[sel.by], CardLimit)
            /\ (sel.by = "css" /\ sel_source = "eventbrite") =>
                  sel.processed = Min(soup["css"], EventbriteCssLimit)
            /\ (sel.by = "css" /\ sel_source = "timeout") =>
                  sel.processed = Min(soup["css"], TimeoutCssLimit)

(* The first selector of the order matches nothing, the second 3 elements, *)
(* a later one more than 50: the 3 cards of the second are processed.      *)
C25_Witness ==
    /\ event_cards # None
    /\ sel_source = "timeout"
    /\ soup["semantic"] = 0
    /\ soup["class"] = 3
    /\ soup["css"] = CardLimit + 1
    /\ event_cards[1].by = "class"
    /\ event_cards[1].processed = 3


(***************************************************************************)
(* C26: a record that has been marked expired is never again in the        *)
(* default event listing (include_expired = false), whatever sweeps and    *)
(* upserts follow, an upsert of its ticket_url with a date_time in the     *)
(* future included.                                                        *)
(***************************************************************************)
C26_ExpiredNeverListedAgain ==
    /\ get_events(events, FALSE, now) \cap ever_expired = {}
    /\ (~response.include_expired /\ response.time = now) =>
          response.ids \cap ever_expired = {}

(* The default listing was asked for after a swept record had been         *)
(* upserted again with a date in the future; it lists another record.      *)
C26_Witness ==
    /\ ~response.include_expired
    /\ response.time = now
    /\ response.ids # {}
    /\ \E r \in events :
          /\ r.id \in ever_expired
          /\ r.date_time > now
          /\ last.op = "updated"
          /\ last.data.ticket_url = r.ticket_url


(***************************************************************************)
(* C27: when closing the browser at the end of a crawl raises, the run     *)
(* returns 0 and makes no upsert, candidates extracted or not; the run     *)
(* changes the store through its sweep only.                               *)
(***************************************************************************)
C27_TeardownFailureSavesNothing ==
    "teardown" \in failures =>
       /\ save_log = <<>>
       /\ written = {}
       /\ \A i \in 1..Len(run_trace) : run_trace[i] # "upsert"
       /\ last.op = "sweep"
       /\ last.source = run_log[Len(run_log)]
       /\ events = mark_expired_events(last.before, last.source, last.time)
       /\ rpc = "idle" => result[run_log[Len(run_log)]] = Some(<<"int", 0>>)

(* The crawl had extracted a candidate and the sweep of the run had marked *)
(* a record when the teardown raised; run() is about to return.            *)
C27_Witness ==
    /\ "teardown" \in failures
    /\ rpc = "return"
    /\ raised
    /\ all_events # <<>>
    /\ events # last.before


(***************************************************************************)
(* C28: every run terminates.  While each page fetch, upsert and wait      *)
(* returns or raises, run() returns after at most 3 page fetches           *)
(* (eventbrite) or 2 (timeout) and no more upsert attempts than the        *)
(* fetched pages gave candidates, and every cycle of run_all_scrapers      *)
(* ends with its database session closed.                                  *)
(***************************************************************************)
Fetches(trace) == SelectSeq(trace, LAMBDA x : x = "fetch")

C28_RunBounded ==
    rpc # "idle" =>
       /\ Cur \in BrowserSources => Len(Fetches(run_trace)) <= PageLimit(Cur)
       /\ Len(page_log) <= PageLimit(Cur)
       /\ Len(Attempts(save_log)) + Len(todo) <= Len(all_events)
       /\ Len(all_events) = Len(LoggedEvents(page_log)) \/ Cur = "meetup"

====
